---------------------------- MODULE Spec2Model ----------------------------
(***************************************************************************)
(* One run of main() of the debayer compute-shader demo (src/main.c).      *)
(*                                                                         *)
(* The program is a single thread; the state is the converter context      *)
(* (struct converter), main's locals, the GL objects and error flag of     *)
(* the context, and the position of the run in the code (pc).  The         *)
(* libraries it calls (libc, GBM, EGL, GLES) are the environment: every    *)
(* call the code tests for failure may fail, and the model draws the       *)
(* outcome with \E.                                                        *)
(*                                                                         *)
(* A C long (64 bit, LP64) does not fit TLC's 32-bit integers, so a byte   *)
(* count is the pair <<hi, lo>> with value hi * 2^16 + lo, 0 <= lo < 2^16. *)
(* The casts to the 32-bit GLsizei / int keep their width: they wrap       *)
(* modulo 2^32.                                                            *)
(***************************************************************************)
EXTENDS Integers, Sequences, FiniteSets, TLC

\* Longest command line (arguments after argv[0]) that Init draws.
MaxArgs == 3

----------------------------------------------------------------------------
(* 64-bit byte counts as two limbs *)

LimbBase == 256 * 256

L(hi, lo) == <<hi, lo>>

LZero == L(0, 0)

LMinusOne == L(-1, LimbBase - 1)

\* x <= y for two normalised counts
LLeq(x, y) == x[1] < y[1] \/ (x[1] = y[1] /\ x[2] <= y[2])

LLess(x, y) == LLeq(x, y) /\ x # y

\* (int) x, (GLsizei) x: the low 32 bits of x, read as a signed number
Int32Cast(x) ==
    LET h == x[1] % LimbBase
    IN  L(IF h >= LimbBase \div 2 THEN h - LimbBase ELSE h, x[2])

\* the widening of a 32-bit value back to long / GLsizeiptr changes nothing
LMul(k, x) == L(k * x[1] + (k * x[2]) \div LimbBase, (k * x[2]) % LimbBase)

----------------------------------------------------------------------------
(* Values of the GL and C headers the code compares against *)

GL_NO_ERROR == 0
GL_TRUE == 1
GL_INVALID_VALUE == 1281
GL_INVALID_OPERATION == 1282
GL_OUT_OF_MEMORY == 1285
EXIT_FAILURE == 1

\* the status a parent process sees for main returning r, or exit(r)
ExitStatus(r) == r % 256

----------------------------------------------------------------------------
(* The command line and getopt(argc, argv, "f:h") *)

Tokens == {"-h", "-f", "-fRGGB", "--", "in.raw", "out.rgba"}

IsOptionToken(t) == t \in {"-h", "-f", "-fRGGB", "--"}

CommandLines == UNION {[1..n -> Tokens] : n \in 0..MaxArgs}

\* NONOPTION_P: a word that is no option (no leading '-', or "-" alone)
NonOption(t) == ~IsOptionToken(t)

\* getopt's exchange(): argv (without argv[0]; args[j] is C's argv[j]) with the
\* non-options in [fn, ln) and the option words in [ln, oi) swapped
Exchange(args, fn, ln, oi) ==
    SubSeq(args, 1, fn - 1) \o SubSeq(args, ln, oi - 1)
      \o SubSeq(args, fn, ln - 1) \o SubSeq(args, oi, Len(args))

\* optind after "while (optind < argc && NONOPTION_P) optind++"
SkipNonOptions(args, oi) ==
    LET cand == {j \in oi..Len(args) : IsOptionToken(args[j])}
    IN  IF cand = {} THEN Len(args) + 1
        ELSE CHOOSE j \in cand : \A m \in cand : j <= m

\* one call of getopt(argc, argv, "f:h") at the start of a word, opterr = 1:
\* the character returned ("-1" at the end of the options), optarg, what it
\* writes to stderr, and argv, optind, first_nonopt and last_nonopt after the
\* call.  permute is glibc's default ordering, in which the non-options skipped
\* so far are exchanged with the options behind them at the start of the next
\* call; without it (POSIXLY_CORRECT, other libcs) the scan stops at the first
\* non-option.
Getopt(args, oi, fn0, ln0, permute) ==
    LET argc == Len(args) + 1
        ln1 == IF ln0 > oi THEN oi ELSE ln0
        fn1 == IF fn0 > oi THEN oi ELSE fn0
        swap == permute /\ fn1 # ln1 /\ ln1 # oi
        a2 == IF swap THEN Exchange(args, fn1, ln1, oi) ELSE args
        fn2 == IF ~permute THEN fn1
               ELSE IF swap THEN fn1 + (oi - ln1)
               ELSE IF ln1 # oi THEN oi
               ELSE fn1
        oi2 == IF permute THEN SkipNonOptions(a2, oi) ELSE oi
        ln2 == IF permute THEN oi2 ELSE ln1
        dashes == oi2 # argc /\ a2[oi2] = "--"
        swap2 == dashes /\ fn2 # ln2 /\ ln2 # oi2 + 1
        a3 == IF swap2 THEN Exchange(a2, fn2, ln2, oi2 + 1) ELSE a2
        fn3 == IF ~dashes THEN fn2
               ELSE IF swap2 THEN fn2 + (oi2 + 1 - ln2)
               ELSE IF fn2 = ln2 THEN oi2 + 1
               ELSE fn2
        ln3 == IF dashes THEN argc ELSE ln2
        oi3 == IF dashes THEN argc ELSE oi2
        R(c, optarg, o, e) ==
            [c |-> c, optarg |-> optarg, args |-> a3, optind |-> o,
             first_nonopt |-> fn3, last_nonopt |-> ln3, stderr |-> e]
    IN  IF oi3 = argc
        THEN R("-1", "", IF fn3 # ln3 THEN fn3 ELSE oi3, <<>>)
        ELSE IF NonOption(a3[oi3]) THEN R("-1", "", oi3, <<>>)
        ELSE CASE a3[oi3] = "-h" -> R("h", "", oi3 + 1, <<>>)
               [] a3[oi3] = "-fRGGB" -> R("f", "RGGB", oi3 + 1, <<>>)
               [] a3[oi3] = "-f" /\ oi3 + 1 < argc ->
                    R("f", a3[oi3 + 1], oi3 + 2, <<>>)
               [] OTHER ->  \* -f without its argument
                    R("?", "", oi3 + 1, <<"option requires an argument">>)

\* parse_bayer_order as it would be if it accepted its argument
parse_bayer_order_accepting(p, bo) == [ret |-> 0, bo |-> 0]

\* static int parse_bayer_order(const char *p, int *bo): not implemented yet
parse_bayer_order(p, bo) == [ret |-> -1, bo |-> bo]

\* the switch as it would be with case 'h' falling out of the switch instead of
\* returning
OptionCaseHelpContinues(c, optarg, bo) ==
    CASE c = "f" ->
            IF parse_bayer_order(optarg, bo).ret < 0
            THEN [print |-> <<"bad bayer order">>, returns |-> TRUE, value |-> -1,
                  bo |-> parse_bayer_order(optarg, bo).bo]
            ELSE [print |-> <<>>, returns |-> FALSE, value |-> 0,
                  bo |-> parse_bayer_order(optarg, bo).bo]
      [] c = "h" ->
            [print |-> <<"usage">>, returns |-> FALSE, value |-> 0, bo |-> bo]
      [] OTHER ->
            [print |-> <<>>, returns |-> FALSE, value |-> 0, bo |-> bo]

\* the switch of main's option loop for the character c that getopt returned:
\* what is printed and whether main returns (and what)
OptionCase(c, optarg, bo) ==
    CASE c = "f" ->
            IF parse_bayer_order(optarg, bo).ret < 0
            THEN [print |-> <<"bad bayer order">>, returns |-> TRUE, value |-> -1,
                  bo |-> parse_bayer_order(optarg, bo).bo]
            ELSE [print |-> <<>>, returns |-> FALSE, value |-> 0,
                  bo |-> parse_bayer_order(optarg, bo).bo]
      [] c = "h" ->
            [print |-> <<"usage">>, returns |-> TRUE, value |-> 0, bo |-> bo]
      [] OTHER ->
            [print |-> <<>>, returns |-> FALSE, value |-> 0, bo |-> bo]

----------------------------------------------------------------------------
(* Files: a file is Absent (fopen fails) or has the size ftell reports *)

Absent == <<>>

\* 2^29, 2^30, 2^30 + 25 and 2^32 bytes stand for the files whose size, or four
\* times it, does not fit 32 bits; -1 is ftell failing
FileSizes ==
    {LMinusOne, LZero, L(0, 1), L(0, 100), L(8192, 0), L(16384, 0),
     L(16384, 25), L(65536, 0)}

FileStates == {Absent} \cup FileSizes

\* long read_input_file(fname, data, type) on a file in state f; malloc_ok and
\* fread_ok are what malloc and fread do.  data is "held" when *data was set to
\* a buffer the caller owns, "unset" when *data was not written.
read_input_file(f, malloc_ok, fread_ok) ==
    IF f = Absent THEN [ret |-> LZero, data |-> "unset"]
    ELSE IF LLeq(f, LZero) THEN [ret |-> LMinusOne, data |-> "unset"]
    ELSE IF ~malloc_ok THEN [ret |-> LMinusOne, data |-> "unset"]
    ELSE IF ~fread_ok THEN [ret |-> LMinusOne, data |-> "unset"]
    ELSE [ret |-> f, data |-> "held"]

read_input_bin_file(f, malloc_ok, fread_ok) ==
    read_input_file(f, malloc_ok, fread_ok)

read_input_text_file(f, malloc_ok, fread_ok) ==
    read_input_file(f, malloc_ok, fread_ok)

\* the bytes the device can take for the output file: none, a hundred, or
\* more than any output this model writes
Rooms == {LZero, L(0, 100), L(32767, LimbBase - 1)}

\* what the environment does to one write_output_file call
WriteEnvs == [fopen_ok : BOOLEAN, room : Rooms, buffered : BOOLEAN]

\* the environment before the call: nothing asked of it yet
NoWriteEnv == [fopen_ok |-> FALSE, room |-> LZero, buffered |-> FALSE]

\* long write_output_file(fname, p_data, data_size): the value returned and the
\* file left behind (<<>>: none was created).  The device stores the first
\* env.room bytes.  When it cannot store them all, either fwrite itself comes
\* up short (-1), or stdio had buffered the rest (env.buffered): fwrite then
\* reports data_size, the loss shows only in fclose, whose result is not
\* tested, and data_size is returned for a shorter file.
write_output_file(fname, data_size, env) ==
    LET stored == IF LLeq(data_size, env.room) THEN data_size ELSE env.room
        fwrite == IF stored = data_size \/ env.buffered THEN data_size ELSE stored
    IN  IF ~env.fopen_ok THEN [ret |-> LZero, file |-> <<>>]
        ELSE IF fwrite # data_size
             THEN [ret |-> LMinusOne, file |-> <<fname, stored>>]
        ELSE [ret |-> data_size, file |-> <<fname, stored>>]

\* the output sized for three bytes (RGB) per input byte
DataOutSizeRGB(data_in_size) == LMul(3, data_in_size)

\* data_out_size = 4 * data_in_size
DataOutSize(data_in_size) == LMul(4, data_in_size)

----------------------------------------------------------------------------
(* The GL error flag: the first error raised stays until glGetError reads it *)

GlRaise(flag, e) == IF flag = GL_NO_ERROR THEN e ELSE flag

\* glBufferData(target, size, ...): a negative size is GL_INVALID_VALUE, and the
\* store may not be available (oom)
BufferDataError(size, oom) ==
    IF LLess(size, LZero) THEN GL_INVALID_VALUE
    ELSE IF oom THEN GL_OUT_OF_MEMORY
    ELSE GL_NO_ERROR

\* glMapBufferRange(target, 0, length, access) on a store of bufsize bytes
MapRangeError(length, bufsize, oom) ==
    IF LLess(length, LZero) \/ LLess(bufsize, length) THEN GL_INVALID_VALUE
    ELSE IF length = LZero THEN GL_INVALID_OPERATION
    ELSE IF oom THEN GL_OUT_OF_MEMORY
    ELSE GL_NO_ERROR

----------------------------------------------------------------------------
VARIABLES
    pc,             \* where the run is in the code
    args,           \* argv[1..argc-1], as getopt has permuted it so far
    first_nonopt,   \* getopt's own state: the non-options it has skipped are
    last_nonopt,    \* argv[first_nonopt .. last_nonopt - 1]
    args0,          \* the command line as given
    permute,        \* whether this libc's getopt permutes argv
    optind,
    b_ord,
    stdout,         \* what was printed, in order
    stderr,         \* what getopt and perror wrote to stderr, in order
    status,         \* "running", "returned" (from main) or "exited" (exit())
    ret,            \* main's return value or exit()'s argument
    p_data_in,      \* the input copy: "unset", "held", "freed"
    data_in_size,
    data_out_size,
    cvt,            \* struct converter: the state of what each field names
    egl_rc,         \* what init_egl returned
    shader_src,     \* init_shader's source buffer: "unset", "held", "freed"
    shader_rc,      \* what init_shader returned
    sh_err,         \* init_shader's GLenum err
    gl_error,       \* the context's error flag
    bufsize,        \* the data store size of each buffer object
    err,            \* main's GLenum err (0 until first assigned, never read before)
    i,              \* main's loop counter
    sync,           \* main's GLsync: "undeclared", then an indeterminate value
                    \* ("null" or "garbage") until glFenceSync assigns "fence"
    wait,           \* what glClientWaitSync did
    mapped,         \* whether glMapBufferRange returned a pointer
    write_rc,       \* what write_output_file returned (<<>> before the call)
    out_file,       \* <<name, size>> of the file this run created, <<>> if none
    write_env,      \* what the environment did to the write_output_file call
    calls           \* the library calls that acquire or release something, and
                    \* the failures detected, in order

vars == <<pc, args, first_nonopt, last_nonopt, args0, permute, optind, b_ord,
          stdout, stderr, status, ret, p_data_in, data_in_size, data_out_size, cvt, egl_rc, shader_src,
          shader_rc, sh_err, gl_error, bufsize, err, i, sync, wait, mapped, write_rc,
          out_file, write_env, calls>>

main_vars == <<p_data_in, data_in_size, data_out_size>>
egl_vars == <<cvt, egl_rc>>
shader_vars == <<shader_src, shader_rc, sh_err>>
gl_vars == <<gl_error, bufsize, err, i, sync, wait, mapped>>
io_vars == <<write_rc, out_file, write_env>>
getopt_vars == <<args, optind, first_nonopt, last_nonopt>>
cmd_vars == <<getopt_vars, args0, permute, b_ord>>
\* the command line and stderr: past the option loop only open()'s perror
\* writes one of them
arg_vars == <<cmd_vars, stderr>>
end_vars == <<status, ret>>

\* struct converter cvt, before anything is assigned
CvtInit ==
    [fd |-> "none", gbm |-> "none", egl_dpy |-> "none", core_ctx |-> "none",
     bos |-> "none", shader_program |-> "none", compute_shader |-> "none"]

Init ==
    /\ pc = "getopt"
    /\ args0 \in CommandLines
    /\ args = args0
    /\ permute \in BOOLEAN
    /\ optind = 1
    /\ first_nonopt = 1
    /\ last_nonopt = 1
    /\ b_ord = -1
    /\ stdout = <<>>
    /\ stderr = <<>>
    /\ status = "running"
    /\ ret = 0
    /\ p_data_in = "unset"
    /\ data_in_size = LZero
    /\ data_out_size = LZero
    /\ cvt = CvtInit
    /\ egl_rc = 0
    /\ shader_src = "unset"
    /\ shader_rc = 0
    /\ sh_err = 0
    /\ gl_error = GL_NO_ERROR
    /\ bufsize = <<LZero, LZero>>
    /\ err = 0
    /\ i = 0
    /\ sync = "undeclared"
    /\ wait = "none"
    /\ mapped = FALSE
    /\ write_rc = <<>>
    /\ out_file = <<>>
    /\ write_env = NoWriteEnv
    /\ calls = <<>>

\* the test of an init call's result as "< 0"
InitCallFailedIfNegative(rc) == rc < 0

\* if (init_egl(...) != 0), if (init_shader(...) != 0)
InitCallFailed(rc) == rc # 0

\* return v from main
Return(v) ==
    /\ pc' = "done"
    /\ status' = "returned"
    /\ ret' = v

\* exit(v)
Exit(v) ==
    /\ pc' = "done"
    /\ status' = "exited"
    /\ ret' = v

----------------------------------------------------------------------------
(* main: the command line, lines 343-369 *)

\* one turn of the option loop: getopt, then the switch
MainGetopt ==
    /\ pc = "getopt"
    /\ LET g == Getopt(args, optind, first_nonopt, last_nonopt, permute)
           o == OptionCase(g.c, g.optarg, b_ord)
       IN  /\ args' = g.args
           /\ optind' = g.optind
           /\ first_nonopt' = g.first_nonopt
           /\ last_nonopt' = g.last_nonopt
           /\ stderr' = stderr \o g.stderr
           /\ b_ord' = o.bo
           /\ stdout' = stdout \o o.print
           /\ IF g.c = "-1"
              THEN pc' = "check_args" /\ UNCHANGED end_vars
              ELSE IF o.returns
                   THEN Return(o.value)
                   ELSE pc' = "getopt" /\ UNCHANGED end_vars
    /\ UNCHANGED <<args0, permute, main_vars, egl_vars, shader_vars, gl_vars,
                   io_vars, calls>>

\* if (argc - optind != 2)
MainCheckArgs ==
    /\ pc = "check_args"
    /\ IF (Len(args) + 1) - optind # 2
       THEN /\ stdout' = Append(stdout, "Give input and output files")
            /\ calls' = Append(calls, "args:fail")
            /\ Return(-1)
       ELSE /\ pc' = "read_input"
            /\ UNCHANGED <<stdout, calls, end_vars>>
    /\ UNCHANGED <<arg_vars, main_vars, egl_vars, shader_vars, gl_vars, io_vars>>

\* data_in_size = read_input_bin_file(argv[optind], &p_data_in), and the test
MainReadInput ==
    /\ pc = "read_input"
    /\ \E f \in FileStates, malloc_ok \in BOOLEAN, fread_ok \in BOOLEAN :
         LET r == read_input_bin_file(f, malloc_ok, fread_ok)
         IN  /\ data_in_size' = r.ret
             /\ p_data_in' = r.data
             /\ IF LLeq(r.ret, LZero)
                THEN /\ stdout' = Append(stdout, "Failed to read input file")
                     /\ calls' = Append(calls, "read_input:fail")
                     /\ data_out_size' = data_out_size
                     /\ Return(-1)
                ELSE /\ data_out_size' = DataOutSize(r.ret)
                     /\ pc' = "egl_open"
                     /\ UNCHANGED <<stdout, calls, end_vars>>
    /\ UNCHANGED <<arg_vars, egl_vars, shader_vars, gl_vars, io_vars>>

----------------------------------------------------------------------------
(* init_egl, lines 115-217 *)

\* a release call on a handle: right only for one that is held
Release(h) == IF h = "held" THEN "released" ELSE "misused"

\* the unwind chain entered one label too late after eglGetPlatformDisplay
\* fails: the GBM device is not destroyed
InitEglFailLabelSkipsGbm(step) ==
    CASE step = "egl_open" -> "egl_return"
      [] step = "egl_gbm" -> "err_gbm"
      [] step = "egl_getdpy" -> "err_gbm"
      [] step \in {"egl_init", "egl_ext", "egl_cfg", "egl_bind", "egl_create"}
            -> "err_egl_ctx"
      [] step = "egl_current" -> "err_egl_make_current"

\* where init_egl goes when the step fails: a label of its unwind chain, or
\* "egl_return" for the plain return -1 after open()
InitEglFailLabel(step) ==
    CASE step = "egl_open" -> "egl_return"
      [] step = "egl_gbm" -> "err_gbm"
      [] step = "egl_getdpy" -> "err_egl_dpy"
      [] step \in {"egl_init", "egl_ext", "egl_cfg", "egl_bind", "egl_create"}
            -> "err_egl_ctx"
      [] step = "egl_current" -> "err_egl_make_current"

\* a step of init_egl that is tested: on success the field (if any) is held,
\* said is printed and the run goes on at next; on failure it prints and goes
\* to its label
EglStep(step, ok, field, call, said, next) ==
    /\ pc = step
    /\ IF ok
       THEN /\ pc' = next
            /\ cvt' = IF field = "" THEN cvt ELSE [cvt EXCEPT ![field] = "held"]
            /\ calls' = IF field = "" THEN calls ELSE Append(calls, call)
            /\ stdout' = stdout \o said
       ELSE /\ pc' = InitEglFailLabel(step)
            /\ cvt' = cvt
            /\ calls' = Append(calls, call \o ":fail")
            /\ stdout' = Append(stdout, "init_opengl: " \o call \o " failed")
    /\ UNCHANGED <<arg_vars, main_vars, egl_rc, shader_vars, gl_vars, io_vars,
                   end_vars>>

\* conv->fd = open(render_node, O_RDWR); its failure is reported with perror,
\* on stderr, and returns at once
EglOpen ==
    /\ pc = "egl_open"
    /\ \E ok \in BOOLEAN :
         IF ok
         THEN /\ pc' = "egl_gbm"
              /\ cvt' = [cvt EXCEPT !.fd = "held"]
              /\ calls' = Append(calls, "open")
              /\ stderr' = stderr
         ELSE /\ pc' = InitEglFailLabel("egl_open")
              /\ cvt' = cvt
              /\ calls' = Append(calls, "open:fail")
              /\ stderr' = Append(stderr, "init_opengl: : open failed")
    /\ UNCHANGED <<cmd_vars, main_vars, egl_rc, shader_vars, gl_vars, io_vars,
                   end_vars, stdout>>

EglGbm ==
    \E ok \in BOOLEAN :
      EglStep("egl_gbm", ok, "gbm", "gbm_create_device", <<>>, "egl_getdpy")

EglGetDisplay ==
    \E ok \in BOOLEAN :
      EglStep("egl_getdpy", ok, "egl_dpy", "eglGetPlatformDisplay", <<>>,
              "egl_init")

\* eglInitialize, and on success printf("EGL version: ...")
EglInitialize ==
    \E ok \in BOOLEAN :
      EglStep("egl_init", ok, "", "eglInitialize", <<"EGL version">>, "egl_ext")

EglExtensions ==
    \E ok \in BOOLEAN :
      EglStep("egl_ext", ok, "", "extensions", <<>>, "egl_count")

\* the first eglChooseConfig only counts: its failure is printed and ignored,
\* and the count is printed either way
EglCountConfigs ==
    /\ pc = "egl_count"
    /\ \E ok \in BOOLEAN :
         stdout' = stdout
            \o (IF ok THEN <<>>
                ELSE <<"init_opengl: eglChooseConfig(&cfg == NULL) failed">>)
            \o <<"eglChooseConfig(): matching configs available">>
    /\ pc' = "egl_cfg"
    /\ UNCHANGED <<arg_vars, main_vars, egl_vars, shader_vars, gl_vars, io_vars,
                   end_vars, calls>>

EglChooseConfig ==
    \E ok \in BOOLEAN :
      EglStep("egl_cfg", ok, "", "eglChooseConfig", <<>>, "egl_bind")

EglBindAPI ==
    \E ok \in BOOLEAN :
      EglStep("egl_bind", ok, "", "eglBindAPI", <<>>, "egl_create")

EglCreateContext ==
    \E ok \in BOOLEAN :
      EglStep("egl_create", ok, "core_ctx", "eglCreateContext", <<>>,
              "egl_current")

\* eglMakeCurrent, and on success the version queries and return 0
EglMakeCurrent ==
    /\ pc = "egl_current"
    /\ \E ok \in BOOLEAN :
         IF ok
         THEN /\ egl_rc' = 0
              /\ pc' = "main_egl"
              /\ stdout' = Append(stdout, "*** EGL version")
              /\ calls' = calls
         ELSE /\ egl_rc' = egl_rc
              /\ pc' = InitEglFailLabel("egl_current")
              /\ stdout' = Append(stdout, "init_opengl: eglMakeCurrent failed")
              /\ calls' = Append(calls, "eglMakeCurrent:fail")
    /\ UNCHANGED <<arg_vars, main_vars, cvt, shader_vars, gl_vars, io_vars,
                   end_vars>>

\* one label of the unwind chain: the release call, then on to the next label
EglUnwind(label, field, call, next) ==
    /\ pc = label
    /\ cvt' = [cvt EXCEPT ![field] = Release(cvt[field])]
    /\ calls' = Append(calls, call)
    /\ pc' = next
    /\ UNCHANGED <<arg_vars, main_vars, egl_rc, shader_vars, gl_vars, io_vars,
                   end_vars, stdout>>

ErrEglMakeCurrent ==
    EglUnwind("err_egl_make_current", "core_ctx", "eglDestroyContext", "err_egl_ctx")

ErrEglCtx == EglUnwind("err_egl_ctx", "egl_dpy", "eglTerminate", "err_egl_dpy")

ErrEglDpy == EglUnwind("err_egl_dpy", "gbm", "gbm_device_destroy", "err_gbm")

ErrGbm == EglUnwind("err_gbm", "fd", "close", "egl_return")

\* return -1
EglReturnFailure ==
    /\ pc = "egl_return"
    /\ egl_rc' = -1
    /\ pc' = "main_egl"
    /\ UNCHANGED <<arg_vars, main_vars, cvt, shader_vars, gl_vars, io_vars,
                   end_vars, stdout, calls>>

\* if (init_egl(&cvt, RENDER_NODE_FNAME) != 0)
MainAfterEgl ==
    /\ pc = "main_egl"
    /\ IF InitCallFailed(egl_rc)
       THEN /\ stdout' = Append(stdout, "EGL initialization failed")
            /\ Exit(EXIT_FAILURE)
       ELSE /\ pc' = "sh_read"
            /\ UNCHANGED <<stdout, end_vars>>
    /\ UNCHANGED <<arg_vars, main_vars, egl_vars, shader_vars, gl_vars, io_vars,
                   calls>>

----------------------------------------------------------------------------
(* init_shader, lines 227-301 *)

\* glDeleteShader / glDeleteProgram / glDeleteBuffers on the object a field
\* names: the name 0 ("none") is silently ignored, a deleted name is an error
DeleteObject(o) ==
    IF o = "none" THEN "none"
    ELSE IF o = "deleted" THEN "misused"
    ELSE "deleted"

\* return v from init_shader
ShaderReturn(v) ==
    /\ shader_rc' = v
    /\ pc' = "main_shader"

\* shader_cnt = read_input_text_file(...); if (shader_cnt <= 0) return GL_TRUE
ShaderRead ==
    /\ pc = "sh_read"
    /\ \E f \in FileStates, malloc_ok \in BOOLEAN, fread_ok \in BOOLEAN :
         LET r == read_input_text_file(f, malloc_ok, fread_ok)
             shader_cnt == Int32Cast(r.ret)
         IN  /\ shader_src' = r.data
             /\ IF LLeq(shader_cnt, LZero)
                THEN /\ stdout' = Append(stdout, "Fail to read the shader source")
                     /\ calls' = Append(calls, "shader_read:fail")
                     /\ ShaderReturn(GL_TRUE)
                ELSE /\ stdout' = Append(stdout, "bytes read")
                     /\ calls' = calls
                     /\ pc' = "sh_create"
                     /\ shader_rc' = shader_rc
    /\ UNCHANGED <<arg_vars, main_vars, egl_vars, sh_err, gl_vars, io_vars,
                   end_vars>>

\* conv->compute_shader = glCreateShader(GL_COMPUTE_SHADER), and the test
ShaderCreate ==
    /\ pc = "sh_create"
    /\ \E ok \in BOOLEAN :
         IF ok
         THEN /\ cvt' = [cvt EXCEPT !.compute_shader = "created"]
              /\ calls' = Append(calls, "glCreateShader")
              /\ pc' = "sh_source"
              /\ UNCHANGED <<shader_src, shader_rc, gl_error>>
         ELSE /\ cvt' = cvt
              /\ calls' = Append(calls, "glCreateShader:fail")
              /\ shader_src' = "freed"
              /\ ShaderReturn(GlRaise(gl_error, GL_OUT_OF_MEMORY))
              /\ gl_error' = GL_NO_ERROR
    /\ UNCHANGED <<arg_vars, main_vars, egl_rc, sh_err, bufsize, err, i, sync, wait,
                   mapped, io_vars, end_vars, stdout>>

\* glShaderSource, free(shader_src), if ((err = glGetError()) != GL_NO_ERROR)
ShaderSource ==
    /\ pc = "sh_source"
    /\ shader_src' = "freed"
    /\ \E e \in {GL_NO_ERROR, GL_OUT_OF_MEMORY} :
         /\ sh_err' = GlRaise(gl_error, e)
         /\ gl_error' = GL_NO_ERROR
         /\ IF GlRaise(gl_error, e) # GL_NO_ERROR
            THEN /\ calls' = Append(calls, "glShaderSource:fail")
                 /\ ShaderReturn(GlRaise(gl_error, e))
            ELSE /\ calls' = calls
                 /\ pc' = "sh_compile"
                 /\ shader_rc' = shader_rc
    /\ UNCHANGED <<arg_vars, main_vars, egl_vars, bufsize, err, i, sync, wait,
                   mapped, io_vars, end_vars, stdout>>

\* glCompileShader and the GL_COMPILE_STATUS test; log_ok is malloc(param), e
\* the GL error that glCompileShader .. glGetShaderInfoLog raise.  Only the
\* branch that has a log buffer reads the flag (line 272); the others leave it
\* pending.
ShaderCompile ==
    /\ pc = "sh_compile"
    /\ \E compiled \in BOOLEAN, log_ok \in BOOLEAN,
          e \in {GL_NO_ERROR, GL_OUT_OF_MEMORY} :
         IF compiled
         THEN /\ pc' = "sh_program"
              /\ gl_error' = GlRaise(gl_error, e)
              /\ UNCHANGED <<shader_rc, stdout, calls>>
         ELSE /\ calls' = Append(calls, "glCompileShader:fail")
              /\ ShaderReturn(GL_TRUE)
              /\ IF log_ok
                 THEN /\ stdout' = stdout \o
                            IF GlRaise(gl_error, e) = GL_NO_ERROR
                            THEN <<"glCompileShader() failed", "log">>
                            ELSE <<"glCompileShader() failed">>
                      /\ gl_error' = GL_NO_ERROR
                 ELSE /\ stdout' = stdout \o
                            <<"glCompileShader() failed", ", no log is available">>
                      /\ gl_error' = GlRaise(gl_error, e)
    /\ UNCHANGED <<arg_vars, main_vars, egl_vars, shader_src, sh_err, bufsize,
                   err, i, sync, wait, mapped, io_vars, end_vars>>

\* conv->shader_program = glCreateProgram(), and the test
ShaderCreateProgram ==
    /\ pc = "sh_program"
    /\ \E ok \in BOOLEAN :
         IF ok
         THEN /\ cvt' = [cvt EXCEPT !.shader_program = "created"]
              /\ calls' = Append(calls, "glCreateProgram")
              /\ pc' = "sh_attach"
              /\ UNCHANGED <<sh_err, gl_error>>
         ELSE /\ cvt' = [cvt EXCEPT !.shader_program = "none"]
              /\ calls' = Append(calls, "glCreateProgram:fail")
              /\ sh_err' = GlRaise(gl_error, GL_OUT_OF_MEMORY)
              /\ gl_error' = GL_NO_ERROR
              /\ pc' = "err_del_shader"
    /\ UNCHANGED <<arg_vars, main_vars, egl_rc, shader_src, shader_rc, bufsize,
                   err, i, sync, wait, mapped, io_vars, end_vars, stdout>>

\* glAttachShader, if ((err = glGetError()) != GL_NO_ERROR)
ShaderAttach ==
    /\ pc = "sh_attach"
    /\ \E e \in {GL_NO_ERROR, GL_OUT_OF_MEMORY} :
         /\ sh_err' = GlRaise(gl_error, e)
         /\ gl_error' = GL_NO_ERROR
         /\ IF GlRaise(gl_error, e) # GL_NO_ERROR
            THEN /\ calls' = Append(calls, "glAttachShader:fail")
                 /\ pc' = "err_del_program"
            ELSE /\ calls' = calls
                 /\ pc' = "sh_link"
    /\ UNCHANGED <<arg_vars, main_vars, egl_vars, shader_src, shader_rc, bufsize,
                   err, i, sync, wait, mapped, io_vars, end_vars, stdout>>

\* glLinkProgram, if ((err = glGetError()) != GL_NO_ERROR).  Whether the
\* program linked is its GL_LINK_STATUS, which is no GL error and which the
\* code does not read; a GL error leaves the program unlinked.
ShaderLink ==
    /\ pc = "sh_link"
    /\ \E linked \in BOOLEAN, e \in {GL_NO_ERROR, GL_OUT_OF_MEMORY} :
         /\ cvt' = [cvt EXCEPT !.shader_program =
                       IF linked /\ e = GL_NO_ERROR THEN "linked" ELSE "unlinked"]
         /\ sh_err' = GlRaise(gl_error, e)
         /\ gl_error' = GL_NO_ERROR
         /\ IF GlRaise(gl_error, e) # GL_NO_ERROR
            THEN /\ calls' = Append(calls, "glLinkProgram:fail")
                 /\ pc' = "err_del_program"
            ELSE /\ calls' = IF linked THEN calls
                             ELSE Append(calls, "glLinkProgram:fail")
                 /\ pc' = "sh_ok"
    /\ UNCHANGED <<arg_vars, main_vars, egl_rc, shader_src, shader_rc, bufsize,
                   err, i, sync, wait, mapped, io_vars, end_vars, stdout>>

\* glDeleteShader(conv->compute_shader); return 0
ShaderOk ==
    /\ pc = "sh_ok"
    /\ cvt' = [cvt EXCEPT !.compute_shader = DeleteObject(cvt.compute_shader)]
    /\ calls' = Append(calls, "glDeleteShader")
    /\ ShaderReturn(0)
    /\ UNCHANGED <<arg_vars, main_vars, egl_rc, shader_src, sh_err, gl_vars,
                   io_vars, end_vars, stdout>>

\* err_del_program: glDeleteProgram(conv->shader_program)
ErrDelProgram ==
    /\ pc = "err_del_program"
    /\ cvt' = [cvt EXCEPT !.shader_program = DeleteObject(cvt.shader_program)]
    /\ calls' = Append(calls, "glDeleteProgram")
    /\ pc' = "err_del_shader"
    /\ UNCHANGED <<arg_vars, main_vars, egl_rc, shader_vars, gl_vars, io_vars,
                   end_vars, stdout>>

\* err_del_shader: glDeleteShader(conv->compute_shader); return err
ErrDelShader ==
    /\ pc = "err_del_shader"
    /\ cvt' = [cvt EXCEPT !.compute_shader = DeleteObject(cvt.compute_shader)]
    /\ calls' = Append(calls, "glDeleteShader")
    /\ ShaderReturn(sh_err)
    /\ UNCHANGED <<arg_vars, main_vars, egl_rc, shader_src, sh_err, gl_vars,
                   io_vars, end_vars, stdout>>

\* if (init_shader(&cvt) != 0)
MainAfterShader ==
    /\ pc = "main_shader"
    /\ IF InitCallFailed(shader_rc)
       THEN /\ stdout' = Append(stdout, "Shader creation failed")
            /\ Exit(EXIT_FAILURE)
       ELSE /\ pc' = "gen_buffers"
            /\ UNCHANGED <<stdout, end_vars>>
    /\ UNCHANGED <<arg_vars, main_vars, egl_vars, shader_vars, gl_vars, io_vars,
                   calls>>

----------------------------------------------------------------------------
(* main: buffers, dispatch, read-back, lines 383-442 *)

\* glUseProgram(p): the name 0 unbinds; a program that is not linked
\* successfully cannot be made current
UseProgramError(p) ==
    IF p \in {"linked", "none"} THEN GL_NO_ERROR ELSE GL_INVALID_OPERATION

\* glDispatchCompute with program p current
DispatchError(p, oom) ==
    IF p # "linked" THEN GL_INVALID_OPERATION
    ELSE IF oom THEN GL_OUT_OF_MEMORY
    ELSE GL_NO_ERROR

\* glGenBuffers(bo_num, cvt.bos)
MainGenBuffers ==
    /\ pc = "gen_buffers"
    /\ cvt' = [cvt EXCEPT !.bos = "created"]
    /\ calls' = Append(calls, "glGenBuffers")
    /\ pc' = "buf_in"
    /\ UNCHANGED <<arg_vars, main_vars, egl_rc, shader_vars, gl_vars, io_vars,
                   end_vars, stdout>>

\* glBufferData(in, (GLsizei)data_in_size, p_data_in), err = glGetError()
MainBufferIn ==
    /\ pc = "buf_in"
    /\ \E oom \in BOOLEAN :
         LET size == Int32Cast(data_in_size)
             e == BufferDataError(size, oom)
         IN  /\ bufsize' = IF e = GL_NO_ERROR THEN <<size, bufsize[2]>> ELSE bufsize
             /\ err' = GlRaise(gl_error, e)
             /\ gl_error' = GL_NO_ERROR
             /\ IF GlRaise(gl_error, e) # GL_NO_ERROR
                THEN /\ stdout' = Append(stdout, "glBufferData(in) error")
                     /\ calls' = Append(calls, "glBufferData(in):fail")
                     /\ pc' = "err_buffs"
                ELSE /\ pc' = "buf_out"
                     /\ UNCHANGED <<stdout, calls>>
    /\ UNCHANGED <<arg_vars, main_vars, egl_vars, shader_vars, i, sync, wait,
                   mapped, io_vars, end_vars>>

\* glBufferData(out, (GLsizei)data_out_size, NULL), err = glGetError()
MainBufferOut ==
    /\ pc = "buf_out"
    /\ \E oom \in BOOLEAN :
         LET size == Int32Cast(data_out_size)
             e == BufferDataError(size, oom)
         IN  /\ bufsize' = IF e = GL_NO_ERROR THEN <<bufsize[1], size>> ELSE bufsize
             /\ err' = GlRaise(gl_error, e)
             /\ gl_error' = GL_NO_ERROR
             /\ IF GlRaise(gl_error, e) # GL_NO_ERROR
                THEN /\ stdout' = Append(stdout, "glBufferData(out) error")
                     /\ calls' = Append(calls, "glBufferData(out):fail")
                     /\ pc' = "err_buffs"
                ELSE /\ pc' = "bind_bases"
                     /\ UNCHANGED <<stdout, calls>>
    /\ UNCHANGED <<arg_vars, main_vars, egl_vars, shader_vars, i, sync, wait,
                   mapped, io_vars, end_vars>>

\* the two glBindBufferBase calls, GLsync sync; and the loop's i = 0.  sync is
\* not initialised: it holds whatever its register or stack slot held.
MainBindBases ==
    /\ pc = "bind_bases"
    /\ sync' \in {"null", "garbage"}
    /\ i' = 0
    /\ pc' = "loop_test"
    /\ UNCHANGED <<arg_vars, main_vars, egl_vars, shader_vars, gl_error, bufsize,
                   err, wait, mapped, io_vars, end_vars, stdout, calls>>

\* for (...; i < 1; ...)
LoopTest ==
    /\ pc = "loop_test"
    /\ pc' = IF i < 1 THEN "loop_use" ELSE "wait"
    /\ UNCHANGED <<arg_vars, main_vars, egl_vars, shader_vars, gl_vars, io_vars,
                   end_vars, stdout, calls>>

\* if (use_shader(cvt.shader_program) != 0) { ...; break; }
LoopUseShader ==
    /\ pc = "loop_use"
    /\ LET use_shader == GlRaise(gl_error, UseProgramError(cvt.shader_program))
                            # GL_NO_ERROR
       IN  IF use_shader
           THEN /\ stdout' = Append(stdout, "use_shader() failed")
                /\ calls' = Append(calls, "use_shader:fail")
                /\ pc' = "wait"
           ELSE /\ pc' = "loop_dispatch"
                /\ UNCHANGED <<stdout, calls>>
    /\ gl_error' = GL_NO_ERROR
    /\ UNCHANGED <<arg_vars, main_vars, egl_vars, shader_vars, bufsize, err, i,
                   sync, wait, mapped, io_vars, end_vars>>

\* glDispatchCompute(WG_NUM_X, WG_NUM_Y, 1); err = glGetError(); the test
LoopDispatch ==
    /\ pc = "loop_dispatch"
    /\ \E oom \in BOOLEAN :
         LET e == GlRaise(gl_error, DispatchError(cvt.shader_program, oom))
         IN  /\ err' = e
             /\ IF e # GL_NO_ERROR
                THEN /\ stdout' = Append(stdout, "glDispatchCompute() error")
                     /\ calls' = Append(calls, "glDispatchCompute:fail")
                     /\ pc' = "wait"
                ELSE /\ calls' = Append(calls, "glDispatchCompute")
                     /\ pc' = "loop_fence"
                     /\ stdout' = stdout
    /\ gl_error' = GL_NO_ERROR
    /\ UNCHANGED <<arg_vars, main_vars, egl_vars, shader_vars, bufsize, i, sync,
                   wait, mapped, io_vars, end_vars>>

\* glMemoryBarrier; sync = glFenceSync(...); and the loop's i++
LoopFence ==
    /\ pc = "loop_fence"
    /\ sync' = "fence"
    /\ calls' = Append(calls, "glFenceSync")
    /\ i' = i + 1
    /\ pc' = "loop_test"
    /\ UNCHANGED <<arg_vars, main_vars, egl_vars, shader_vars, gl_error, bufsize,
                   err, wait, mapped, io_vars, end_vars, stdout>>

\* glClientWaitSync(sync, GL_SYNC_FLUSH_COMMANDS_BIT, 100*1000).  A value that
\* names no sync object is GL_INVALID_VALUE and the wait fails; that is every
\* value an unassigned sync can hold, since no sync object exists then.
MainWait ==
    /\ pc = "wait"
    /\ IF sync = "fence"
       THEN /\ wait' \in {"signaled", "timeout"}
            /\ gl_error' = gl_error
       ELSE /\ wait' = "failed"
            /\ gl_error' = GlRaise(gl_error, GL_INVALID_VALUE)
    /\ calls' = Append(calls, "glClientWaitSync")
    /\ pc' = "map"
    /\ UNCHANGED <<arg_vars, main_vars, egl_vars, shader_vars, bufsize, err, i,
                   sync, mapped, io_vars, end_vars, stdout>>

\* data = glMapBufferRange(..., 0, data_out_size, GL_MAP_READ_BIT), the test
MainMap ==
    /\ pc = "map"
    /\ \E oom \in BOOLEAN :
         LET e == MapRangeError(data_out_size, bufsize[2], oom)
         IN  IF e # GL_NO_ERROR
             THEN /\ mapped' = FALSE
                  /\ stdout' = Append(stdout, "glMapBufferRange(out) error")
                  /\ calls' = Append(calls, "glMapBufferRange:fail")
                  /\ gl_error' = GL_NO_ERROR
                  /\ pc' = "err_buffs"
             ELSE /\ mapped' = TRUE
                  /\ calls' = Append(calls, "glMapBufferRange")
                  /\ pc' = "write"
                  /\ UNCHANGED <<stdout, gl_error>>
    /\ UNCHANGED <<arg_vars, main_vars, egl_vars, shader_vars, bufsize, err, i,
                   sync, wait, io_vars, end_vars>>

\* if (write_output_file(argv[optind+1], data, data_out_size) == data_out_size)
MainWrite ==
    /\ pc = "write"
    /\ \E env \in WriteEnvs :
         LET w == write_output_file(args[optind + 1], data_out_size, env)
         IN  /\ write_env' = env
             /\ write_rc' = w.ret
             /\ out_file' = w.file
             /\ stdout' = IF w.ret = data_out_size
                          THEN Append(stdout, "bytes written") ELSE stdout
    /\ calls' = Append(calls, "write_output_file")
    /\ pc' = "unmap"
    /\ UNCHANGED <<arg_vars, main_vars, egl_vars, shader_vars, gl_vars, end_vars>>

\* glUnmapBuffer(GL_COPY_WRITE_BUFFER): no buffer is bound to that target, so
\* the call is GL_INVALID_OPERATION and the output buffer stays mapped
MainUnmap ==
    /\ pc = "unmap"
    /\ gl_error' = GlRaise(gl_error, GL_INVALID_OPERATION)
    /\ pc' = "err_buffs"
    /\ UNCHANGED <<arg_vars, main_vars, egl_vars, shader_vars, bufsize, err, i,
                   sync, wait, mapped, io_vars, end_vars, stdout, calls>>

----------------------------------------------------------------------------
(* main: cleanup and exit, lines 444-451; free_shader; deinit_egl *)

\* the cleanup with deinit_egl's context destruction ahead of free_shader
TeardownNextContextFirst(label) ==
    CASE label = "err_buffs" -> "deinit_ctx"
      [] label = "deinit_ctx" -> "free_shader"
      [] label = "free_shader" -> "deinit_term"
      [] label = "deinit_term" -> "deinit_gbm"
      [] label = "deinit_gbm" -> "deinit_close"
      [] label = "deinit_close" -> "free_in"
      [] label = "free_in" -> "return"

\* the statement that follows each statement of the cleanup
TeardownNext(label) ==
    CASE label = "err_buffs" -> "free_shader"
      [] label = "free_shader" -> "deinit_ctx"
      [] label = "deinit_ctx" -> "deinit_term"
      [] label = "deinit_term" -> "deinit_gbm"
      [] label = "deinit_gbm" -> "deinit_close"
      [] label = "deinit_close" -> "free_in"
      [] label = "free_in" -> "return"

\* a cleanup statement on a GL object of the context
TeardownObject(label, field, call) ==
    /\ pc = label
    /\ cvt' = [cvt EXCEPT ![field] = DeleteObject(cvt[field])]
    /\ calls' = Append(calls, call)
    /\ pc' = TeardownNext(label)

\* a cleanup statement on an EGL / GBM / OS handle
TeardownHandle(label, field, call) ==
    /\ pc = label
    /\ cvt' = [cvt EXCEPT ![field] = Release(cvt[field])]
    /\ calls' = Append(calls, call)
    /\ pc' = TeardownNext(label)
    /\ UNCHANGED <<arg_vars, main_vars, egl_rc, shader_vars, gl_vars, io_vars,
                   end_vars, stdout>>

\* err_buffs: glDeleteBuffers(bo_num, cvt.bos), which also ends a mapping
MainDeleteBuffers ==
    /\ TeardownObject("err_buffs", "bos", "glDeleteBuffers")
    /\ mapped' = FALSE
    /\ UNCHANGED <<arg_vars, main_vars, egl_rc, shader_vars, gl_error, bufsize,
                   err, i, sync, wait, io_vars, end_vars, stdout>>

\* free_shader(&cvt): glDeleteProgram(conv->shader_program)
FreeShader ==
    /\ TeardownObject("free_shader", "shader_program", "glDeleteProgram")
    /\ UNCHANGED <<arg_vars, main_vars, egl_rc, shader_vars, gl_vars, io_vars,
                   end_vars, stdout>>

\* deinit_egl(&cvt), its four calls
DeinitDestroyContext == TeardownHandle("deinit_ctx", "core_ctx", "eglDestroyContext")

DeinitTerminate == TeardownHandle("deinit_term", "egl_dpy", "eglTerminate")

DeinitGbm == TeardownHandle("deinit_gbm", "gbm", "gbm_device_destroy")

DeinitClose == TeardownHandle("deinit_close", "fd", "close")

\* free(p_data_in)
MainFreeInput ==
    /\ pc = "free_in"
    /\ p_data_in' = IF p_data_in = "held" THEN "freed" ELSE "misused"
    /\ pc' = TeardownNext("free_in")
    /\ UNCHANGED <<arg_vars, data_in_size, data_out_size, egl_vars, shader_vars,
                   gl_vars, io_vars, end_vars, stdout, calls>>

\* return err
MainReturn ==
    /\ pc = "return"
    /\ Return(err)
    /\ UNCHANGED <<arg_vars, main_vars, egl_vars, shader_vars, gl_vars, io_vars,
                   stdout, calls>>

Next ==
    \/ MainGetopt
    \/ MainCheckArgs
    \/ MainReadInput
    \/ EglOpen
    \/ EglGbm
    \/ EglGetDisplay
    \/ EglInitialize
    \/ EglExtensions
    \/ EglCountConfigs
    \/ EglChooseConfig
    \/ EglBindAPI
    \/ EglCreateContext
    \/ EglMakeCurrent
    \/ ErrEglMakeCurrent
    \/ ErrEglCtx
    \/ ErrEglDpy
    \/ ErrGbm
    \/ EglReturnFailure
    \/ MainAfterEgl
    \/ ShaderRead
    \/ ShaderCreate
    \/ ShaderSource
    \/ ShaderCompile
    \/ ShaderCreateProgram
    \/ ShaderAttach
    \/ ShaderLink
    \/ ShaderOk
    \/ ErrDelProgram
    \/ ErrDelShader
    \/ MainAfterShader
    \/ MainGenBuffers
    \/ MainBufferIn
    \/ MainBufferOut
    \/ MainBindBases
    \/ LoopTest
    \/ LoopUseShader
    \/ LoopDispatch
    \/ LoopFence
    \/ MainWait
    \/ MainMap
    \/ MainWrite
    \/ MainUnmap
    \/ MainDeleteBuffers
    \/ FreeShader
    \/ DeinitDestroyContext
    \/ DeinitTerminate
    \/ DeinitGbm
    \/ DeinitClose
    \/ MainFreeInput
    \/ MainReturn

Spec == Init /\ [][Next]_vars

----------------------------------------------------------------------------
(* Vocabulary of the properties *)

Called(c) == \E k \in DOMAIN calls : calls[k] = c

Reverse(q) == [k \in 1..Len(q) |-> q[Len(q) + 1 - k]]

\* the option characters getopt yields when the whole command line is scanned
RECURSIVE OptionScan(_, _)
OptionScan(at, p) ==
    LET g == Getopt(at.args, at.optind, at.first_nonopt, at.last_nonopt, p)
    IN  IF g.c = "-1" THEN <<>> ELSE <<g.c>> \o OptionScan(g, p)

GivenOptions ==
    OptionScan([args |-> args0, optind |-> 1, first_nonopt |-> 1,
                last_nonopt |-> 1], permute)

HasOption(c) == \E k \in DOMAIN GivenOptions : GivenOptions[k] = c

\* option c is given and neither -f nor -h comes before its first occurrence
IsFirstOfHelpAndFormat(c) ==
    \E k \in DOMAIN GivenOptions :
       /\ GivenOptions[k] = c
       /\ \A m \in 1..(k - 1) : GivenOptions[m] \notin {"f", "h"}

\* the output file name main passes to write_output_file
OutputName == args[optind + 1]

\* the dispatch was issued without error and the output buffer was mapped
ComputedAndMapped == Called("glDispatchCompute") /\ Called("glMapBufferRange")

\* the output file could be opened and the device had room for n bytes
OutputStorable(n) ==
    /\ Called("write_output_file")
    /\ write_env.fopen_ok
    /\ LLeq(n, write_env.room)

----------------------------------------------------------------------------
(* C1: output size *)

\* C1 as stated: when device init, shader init, buffer allocation, dispatch and
\* output mapping all succeed, the run creates the output file with exactly
\* 4 * S bytes, S the size of the input file.
C1_OutputCreatedWith4S ==
    (pc = "done" /\ ComputedAndMapped)
       => out_file = <<OutputName, LMul(4, data_in_size)>>

\* C1 amended: the same, provided the output file can be opened and the device
\* stores all 4 * S bytes; 4 * S is then also the size allocated for the output
\* buffer, the size mapped and the size written.
C1_OutputSizeWhenWritten ==
    (ComputedAndMapped /\ OutputStorable(LMul(4, data_in_size)))
       => /\ out_file = <<OutputName, LMul(4, data_in_size)>>
          /\ write_rc = LMul(4, data_in_size)
          /\ data_out_size = LMul(4, data_in_size)
          /\ bufsize[2] = LMul(4, data_in_size)
          /\ LLess(LZero, data_in_size)

C1_Witness ==
    /\ pc = "done"
    /\ data_in_size = L(0, 100)
    /\ ComputedAndMapped
    /\ OutputStorable(L(0, 400))
    /\ out_file = <<"out.rgba", L(0, 400)>>
    /\ ret = 0

----------------------------------------------------------------------------
(* C2, C3: -h and -f *)

\* C2 as stated: whenever the command line contains the option -h, main prints
\* the usage text and returns 0, whatever else is given and in whatever order.
C2_HelpRegardlessOfOrder ==
    (HasOption("h") /\ pc = "done")
       => (stdout = <<"usage">> /\ status = "returned" /\ ret = 0)

\* C2 amended: whenever the command line contains the option -h and no -f
\* option with an argument comes before it, main prints the usage text and
\* returns 0 without going past the option loop.
C2_HelpBeforeFormat ==
    IsFirstOfHelpAndFormat("h")
       => /\ pc \in {"getopt", "done"}
          /\ pc = "done" =>
               (stdout = <<"usage">> /\ status = "returned" /\ ret = 0)

C2_Witness ==
    /\ pc = "done"
    /\ args0 = <<"in.raw", "-h", "-fRGGB">>
    /\ permute
    /\ stdout = <<"usage">>
    /\ ret = 0

\* C3 as stated: whenever the command line contains the option -f with an
\* argument, main prints "bad bayer order" and returns -1, in every combination
\* with other options.
C3_FormatAlwaysRejected ==
    (HasOption("f") /\ pc = "done")
       => (stdout = <<"bad bayer order">> /\ status = "returned" /\ ret = -1)

\* C3 amended: whenever the command line contains the option -f with an
\* argument and no -h option comes before it, main prints "bad bayer order" and
\* returns -1 without going past the option loop; the bayer order is never
\* written.
C3_FormatBeforeHelp ==
    /\ IsFirstOfHelpAndFormat("f")
         => /\ pc \in {"getopt", "done"}
            /\ pc = "done" =>
                 (stdout = <<"bad bayer order">> /\ status = "returned" /\ ret = -1)
    /\ b_ord = -1

C3_Witness ==
    /\ pc = "done"
    /\ args0 = <<"-f", "in.raw", "-h">>
    /\ stdout = <<"bad bayer order">>
    /\ ret = -1

----------------------------------------------------------------------------
(* C4: failures before the dispatch *)

InitFailed == egl_rc # 0 \/ shader_rc # 0

\* C4: if the positional arguments are not exactly two, the input file cannot
\* be read, init_egl fails or init_shader fails, the program ends with a
\* non-zero exit status, and write_output_file is never called and no output
\* file is created.
C4_EarlyFailureEndsRun ==
    (Called("args:fail") \/ Called("read_input:fail") \/ InitFailed)
       => /\ pc \in {"done", "main_egl", "main_shader"}
          /\ ~Called("write_output_file")
          /\ ~Called("glDispatchCompute")
          /\ out_file = <<>>
          /\ pc = "done" => ExitStatus(ret) # 0

C4_Witness ==
    /\ pc = "done"
    /\ shader_rc = GL_TRUE
    /\ Called("shader_read:fail")
    /\ status = "exited"
    /\ ExitStatus(ret) = 1

----------------------------------------------------------------------------
(* C5, C9: init_shader *)

\* C5: init_shader returns 0 only if the shader compiled and the program linked,
\* so that conv->shader_program is a usable linked program; every compile and
\* every link failure makes it return non-zero.
C5_ShaderSuccessMeansLinked ==
    pc = "main_shader"
       => /\ shader_rc = 0 => cvt.shader_program = "linked"
          /\ (Called("glCompileShader:fail") \/ Called("glLinkProgram:fail"))
                => shader_rc # 0

\* C9: whenever init_shader returns non-zero, everything it created is released:
\* the source buffer freed, the shader object deleted, the program object (if
\* created) deleted.
C9_ShaderFailureReleasesAll ==
    (pc = "main_shader" /\ shader_rc # 0)
       => /\ shader_src # "held"
          /\ cvt.compute_shader \in {"none", "deleted"}
          /\ cvt.shader_program \in {"none", "deleted"}

----------------------------------------------------------------------------
(* C6, C7: the dispatch loop and main's return value *)

\* C6: whenever the run reaches the fence wait, the loop body has completed its
\* iteration and sync was assigned by glFenceSync after a successful dispatch.
C6_WaitOnAssignedFence ==
    pc = "wait" => (i = 1 /\ sync = "fence" /\ Called("glDispatchCompute"))

\* C7: once the arguments and the input were read, main returns 0 only if the
\* output file was written in full with 4 * S bytes.
C7_ZeroOnlyWhenWritten ==
    (pc = "done" /\ status = "returned" /\ LLess(LZero, data_in_size) /\ ret = 0)
       => /\ out_file = <<OutputName, LMul(4, data_in_size)>>
          /\ write_rc = LMul(4, data_in_size)

----------------------------------------------------------------------------
(* C8: init_egl's unwinding *)

EglAcquireCalls ==
    {"open", "gbm_create_device", "eglGetPlatformDisplay", "eglCreateContext"}

EglReleaseCalls ==
    {"close", "gbm_device_destroy", "eglTerminate", "eglDestroyContext"}

\* the call that releases what the call c acquired
ReleaseOf(c) ==
    CASE c = "open" -> "close"
      [] c = "gbm_create_device" -> "gbm_device_destroy"
      [] c = "eglGetPlatformDisplay" -> "eglTerminate"
      [] c = "eglCreateContext" -> "eglDestroyContext"

IsEglAcquire(c) == c \in EglAcquireCalls

IsEglRelease(c) == c \in EglReleaseCalls

EglAcquired == SelectSeq(calls, IsEglAcquire)

EglReleased == SelectSeq(calls, IsEglRelease)

EglFailures ==
    {"open:fail", "gbm_create_device:fail", "eglGetPlatformDisplay:fail",
     "eglInitialize:fail", "extensions:fail", "eglChooseConfig:fail",
     "eglBindAPI:fail", "eglCreateContext:fail", "eglMakeCurrent:fail"}

EglFailureDetected == \E c \in EglFailures : Called(c)

EglFields == {"fd", "gbm", "egl_dpy", "core_ctx"}

\* C8: when init_egl returns after a failure it has released exactly what the
\* steps before had acquired, in reverse order of acquisition, and returns -1;
\* when it returns 0 all four handles are held and nothing was released.
C8_InitEglUnwindsExactly ==
    pc = "main_egl"
       => IF EglFailureDetected
          THEN /\ egl_rc = -1
               /\ EglReleased =
                    Reverse([k \in 1..Len(EglAcquired) |-> ReleaseOf(EglAcquired[k])])
               /\ \A f \in EglFields : cvt[f] \in {"none", "released"}
          ELSE /\ egl_rc = 0
               /\ EglReleased = <<>>
               /\ Len(EglAcquired) = 4
               /\ \A f \in EglFields : cvt[f] = "held"

C8_Witness ==
    /\ pc = "main_egl"
    /\ egl_rc = -1
    /\ Called("eglMakeCurrent:fail")
    /\ EglReleased = <<"eglDestroyContext", "eglTerminate", "gbm_device_destroy",
                       "close">>

----------------------------------------------------------------------------
(* C10: teardown *)

TeardownCalls ==
    <<"glDeleteBuffers", "glDeleteProgram", "eglDestroyContext", "eglTerminate",
      "gbm_device_destroy", "close">>

IsTeardownCall(c) == \E k \in DOMAIN TeardownCalls : TeardownCalls[k] = c

\* C10: every run that reaches glGenBuffers tears down exactly once and in this
\* order: buffers, program, context, display, GBM device, file descriptor; so
\* no GL object is deleted after the context is destroyed and nothing is
\* released twice.
C10_TeardownOnceInOrder ==
    Called("glGenBuffers")
       => /\ \E n \in 0..Len(TeardownCalls) :
               SelectSeq(calls, IsTeardownCall) = SubSeq(TeardownCalls, 1, n)
          /\ pc = "done" =>
               /\ status = "returned"
               /\ SelectSeq(calls, IsTeardownCall) = TeardownCalls
               /\ cvt.bos = "deleted"
               /\ cvt.shader_program = "deleted"
               /\ \A f \in EglFields : cvt[f] = "released"

C10_Witness ==
    /\ pc = "done"
    /\ Called("glBufferData(out):fail")
    /\ SelectSeq(calls, IsTeardownCall) = TeardownCalls
    /\ cvt.fd = "released"

=============================================================================
